---- MODULE Spec2Model ----
(***************************************************************************)
(* Streaming multipart/related upload of a CouchDB document with           *)
(* attachments (db.go): the JSON stream rewriter copyWithAttachments, the   *)
(* assembler createMultipart and the two io.Pipe stages set up by           *)
(* multipartAttachments and replaceAttachments.                             *)
(*                                                                          *)
(* A byte stream is a sequence of units.  A unit is a string standing for   *)
(* one byte or for one run of bytes that no operation of the program ever   *)
(* splits or inspects ("_attachments", "text/plain", a multipart boundary   *)
(* line).                                                                   *)
(***************************************************************************)
EXTENDS Integers, Sequences, FiniteSets, TLC

\* ------------------------------------------------------------------ bounds
\* size of the copy buffer of io.Copy (32 KiB in the Go library), in units
CopyBuf == 2
\* largest buffer the consumer passes to Read on the body stream
MaxRead == 2
\* largest attachment content, in units
MaxAttLen == 2
\* most members of a generated JSON object (rewriter specification)
MaxMembers == 2
\* most levels of pointer around a document handed to extractAttachments
MaxPtr == 2
\* most calls of Client.Auth on the client
MaxAuthCalls == 4

\* ------------------------------------------------------------------- units
QUOTE == "QUOTE"
BSLASH == "BSLASH"
SP == "SP"
NL == "NL"
LBRACE == "{"
RBRACE == "}"
LBRACK == "["
RBRACK == "]"
COLON == ":"
COMMA == ","
\* the const attachmentsKey, as the run of bytes _attachments
attachmentsKey == "_attachments"

Whitespace == {SP, NL}
\* number, true/false and null literals
Literals == {"1", "2", "true", "null"}

\* errors (Go error values); "nil" is no error, "EOF" is io.EOF
Nil == "nil"
EOF == "EOF"
ErrUnexpectedEOF == "ErrUnexpectedEOF"
ErrSyntax == "ErrSyntax"
ErrRead == "ErrRead"
ErrExpectedOpen == "ErrExpectedOpen"
ErrExpectedClose == "ErrExpectedClose"
ErrClosedPipe == "ErrClosedPipe"
ErrClose == "ErrClose"
ErrAtt == "ErrAtt"

Min(a, b) == IF a < b THEN a ELSE b

Take(s, n) == SubSeq(s, 1, Min(n, Len(s)))
Drop(s, n) == SubSeq(s, Min(n, Len(s)) + 1, Len(s))

RECURSIVE Flatten(_)
Flatten(ss) == IF ss = <<>> THEN <<>> ELSE Head(ss) \o Flatten(Tail(ss))

IsPrefix(s, t) == Len(s) <= Len(t) /\ SubSeq(t, 1, Len(s)) = s

\* ------------------------------------------------- JSON values and scanner
\* A parsed JSON value: t is "lit", "str", "obj" or "arr"; s the literal or
\* the decoded string; m the members [k |-> decoded key, v |-> value].
NoVal == [t |-> "none", s |-> <<>>, m |-> <<>>]
LitVal(u) == [t |-> "lit", s |-> <<u>>, m |-> <<>>]
StrVal(s) == [t |-> "str", s |-> s, m |-> <<>>]
ObjVal(m) == [t |-> "obj", s |-> <<>>, m |-> m]
ArrVal(m) == [t |-> "arr", s |-> <<>>, m |-> m]

ScanOk(n, v) == [st |-> "ok", next |-> n, val |-> v]
ScanSyntax == [st |-> "syntax", next |-> 0, val |-> NoVal]
ScanEnd == [st |-> "eof", next |-> 0, val |-> NoVal]

\* the scanner's skipping of white space before a token
RECURSIVE SkipSpace(_, _)
SkipSpace(s, i) ==
    IF i <= Len(s) /\ s[i] \in Whitespace THEN SkipSpace(s, i + 1) ELSE i

\* a JSON string from the unit after its opening quote: the decoded string
RECURSIVE ScanString(_, _, _)
ScanString(s, j, acc) ==
    IF j > Len(s) THEN ScanEnd
    ELSE IF s[j] = QUOTE THEN ScanOk(j + 1, StrVal(acc))
    ELSE IF s[j] = BSLASH THEN
        IF j + 1 > Len(s) THEN ScanEnd
        ELSE IF s[j + 1] \in {QUOTE, BSLASH}
             THEN ScanString(s, j + 2, Append(acc, s[j + 1]))
             ELSE ScanSyntax
    ELSE IF s[j] = NL THEN ScanSyntax
    ELSE ScanString(s, j + 1, Append(acc, s[j]))

\* one JSON value starting at or after unit i (leading white space skipped)
RECURSIVE ScanValue(_, _)
RECURSIVE ScanMembers(_, _, _, _)
RECURSIVE ScanElements(_, _, _, _)
ScanValue(s, i) ==
    LET j == SkipSpace(s, i) IN
    IF j > Len(s) THEN ScanEnd
    ELSE IF s[j] \in Literals THEN ScanOk(j + 1, LitVal(s[j]))
    ELSE IF s[j] = QUOTE THEN ScanString(s, j + 1, <<>>)
    ELSE IF s[j] = LBRACE THEN ScanMembers(s, j + 1, <<>>, "start")
    ELSE IF s[j] = LBRACK THEN ScanElements(s, j + 1, <<>>, "start")
    ELSE ScanSyntax

\* the members of an object after its "{"; at is "start" (a key or "}"),
\* "key" (a key, after a comma) or "more" (a comma or "}")
ScanMembers(s, i, acc, at) ==
    LET j == SkipSpace(s, i) IN
    IF j > Len(s) THEN ScanEnd
    ELSE IF at = "more" THEN
        IF s[j] = RBRACE THEN ScanOk(j + 1, ObjVal(acc))
        ELSE IF s[j] = COMMA THEN ScanMembers(s, j + 1, acc, "key")
        ELSE ScanSyntax
    ELSE IF s[j] = RBRACE /\ at = "start" THEN ScanOk(j + 1, ObjVal(acc))
    ELSE IF s[j] # QUOTE THEN ScanSyntax
    ELSE LET k == ScanString(s, j + 1, <<>>) IN
         IF k.st # "ok" THEN k
         ELSE LET c == SkipSpace(s, k.next) IN
              IF c > Len(s) THEN ScanEnd
              ELSE IF s[c] # COLON THEN ScanSyntax
              ELSE LET v == ScanValue(s, c + 1) IN
                   IF v.st # "ok" THEN v
                   ELSE ScanMembers(s, v.next,
                            Append(acc, [k |-> k.val.s, v |-> v.val]), "more")

ScanElements(s, i, acc, at) ==
    LET j == SkipSpace(s, i) IN
    IF j > Len(s) THEN ScanEnd
    ELSE IF at = "more" THEN
        IF s[j] = RBRACK THEN ScanOk(j + 1, ArrVal(acc))
        ELSE IF s[j] = COMMA THEN ScanElements(s, j + 1, acc, "val")
        ELSE ScanSyntax
    ELSE IF s[j] = RBRACK /\ at = "start" THEN ScanOk(j + 1, ArrVal(acc))
    ELSE LET v == ScanValue(s, j) IN
         IF v.st # "ok" THEN v
         ELSE ScanElements(s, v.next, Append(acc, [k |-> <<>>, v |-> v.val]), "more")

\* a whole text as one JSON value, nothing but white space after it
ParseJSON(s) ==
    LET v == ScanValue(s, 1) IN
    IF v.st = "ok" /\ SkipSpace(s, v.next) > Len(s) THEN v.val ELSE NoVal

\* ------------------------------------------------ json.Decoder (Token API)
\* An input stream: the units it yields, then the error its Read returns
\* (EOF for a clean end).
Stream(b, e) == [bytes |-> b, err |-> e]

TokErr(e) == [kind |-> "err", val |-> <<>>, err |-> e, scanp |-> 0, ts |-> "Top"]
Tok(k, v, p, ts) == [kind |-> k, val |-> v, err |-> Nil, scanp |-> p, ts |-> ts]

\* Decoder.tokenValueAllowed
tokenValueAllowed(ts) == ts \in {"Top", "ArrayStart", "ArrayValue", "ObjectValue"}

\* Decoder.tokenValueEnd
tokenValueEnd(ts) ==
    CASE ts \in {"ArrayStart", "ArrayValue"} -> "ArrayComma"
      [] ts = "ObjectValue" -> "ObjectComma"
      [] OTHER -> ts

\* Decoder.readValue from scanp, given the scan v of the units from scanp
\* and the place from of the value's first unit: the raw span [from, next)
\* of the next value, or the error.  A literal or string that ends with the
\* input is complete only at a clean end of input; an object or array ends
\* at its bracket.
ReadFail(e) == [err |-> e, from |-> 0, next |-> 0, val |-> NoVal]
readValueOf(inp, v, from) ==
    CASE v.st = "syntax" -> ReadFail(ErrSyntax)
      [] v.st = "eof" ->
            ReadFail(IF inp.err = EOF
                     THEN (IF from > Len(inp.bytes) THEN EOF ELSE ErrUnexpectedEOF)
                     ELSE inp.err)
      [] OTHER ->
            IF v.val.t \in {"lit", "str"} /\ v.next > Len(inp.bytes) /\ inp.err # EOF
            THEN ReadFail(inp.err)
            ELSE [err |-> Nil, from |-> from, next |-> v.next, val |-> v.val]

readValue(inp, scanp) ==
    readValueOf(inp, ScanValue(inp.bytes, scanp), SkipSpace(inp.bytes, scanp))

\* Decoder.Token, case '"' in an object: the key rv that Decode(&x) read
KeyToken(rv) ==
    IF rv.err # Nil THEN TokErr(rv.err)
    ELSE Tok("string", rv.val.s, rv.next, "ObjectColon")

\* Decoder.Token, default case: the value rv that Decode(&x) read
ValueToken(rv, ts) ==
    IF rv.err # Nil THEN TokErr(rv.err)
    ELSE Tok(IF rv.val.t = "str" THEN "string" ELSE "other",
             rv.val.s, rv.next, tokenValueEnd(ts))

\* Decoder.Token with the decoder at unit scanp in token state ts; j is
\* where peek finds the next unit that is no white space.  The token stack
\* holds at most the top-level state: copyWithAttachments consumes every
\* nested value with Decode.
RECURSIVE TokenAt(_, _, _)
TokenAt(inp, j, ts) ==
    IF j > Len(inp.bytes) THEN TokErr(inp.err)
    ELSE
      CASE inp.bytes[j] = LBRACK ->
              IF tokenValueAllowed(ts) THEN Tok("delim", <<LBRACK>>, j + 1, "ArrayStart")
              ELSE TokErr(ErrSyntax)
        [] inp.bytes[j] = RBRACK ->
              IF ts \in {"ArrayStart", "ArrayComma"} THEN Tok("delim", <<RBRACK>>, j + 1, "Top")
              ELSE TokErr(ErrSyntax)
        [] inp.bytes[j] = LBRACE ->
              IF tokenValueAllowed(ts) THEN Tok("delim", <<LBRACE>>, j + 1, "ObjectStart")
              ELSE TokErr(ErrSyntax)
        [] inp.bytes[j] = RBRACE ->
              IF ts \in {"ObjectStart", "ObjectComma"} THEN Tok("delim", <<RBRACE>>, j + 1, "Top")
              ELSE TokErr(ErrSyntax)
        [] inp.bytes[j] = COLON ->
              IF ts = "ObjectColon"
              THEN TokenAt(inp, SkipSpace(inp.bytes, j + 1), "ObjectValue")
              ELSE TokErr(ErrSyntax)
        [] inp.bytes[j] = COMMA ->
              IF ts = "ArrayComma"
              THEN TokenAt(inp, SkipSpace(inp.bytes, j + 1), "ArrayValue")
              ELSE IF ts = "ObjectComma"
              THEN TokenAt(inp, SkipSpace(inp.bytes, j + 1), "ObjectKey")
              ELSE TokErr(ErrSyntax)
        [] inp.bytes[j] = QUOTE /\ ts \in {"ObjectStart", "ObjectKey"} ->
              KeyToken(readValue(inp, j))
        [] OTHER ->
              IF ~tokenValueAllowed(ts) THEN TokErr(ErrSyntax)
              ELSE ValueToken(readValue(inp, j), ts)

Token(inp, scanp, ts) == TokenAt(inp, SkipSpace(inp.bytes, scanp), ts)

\* Decoder.Decode(&val) into a json.RawMessage: the raw units of the next
\* value rv
DecodeFail(e) == [err |-> e, raw |-> <<>>, scanp |-> 0, ts |-> "Top"]
DecodeOf(inp, rv, ts) ==
    IF rv.err # Nil THEN DecodeFail(rv.err)
    ELSE [err |-> Nil,
          raw |-> SubSeq(inp.bytes, rv.from, rv.next - 1),
          scanp |-> rv.next,
          ts |-> tokenValueEnd(ts)]

\* Decoder.tokenPrepareForDecode in state ObjectColon, c the place of the
\* next unit that is no white space: the colon comes first
DecodeAfterColon(inp, c) ==
    IF c > Len(inp.bytes) THEN DecodeFail(inp.err)
    ELSE IF inp.bytes[c] # COLON THEN DecodeFail(ErrSyntax)
    ELSE DecodeOf(inp, readValue(inp, c + 1), "ObjectValue")

\* Decoder.Decode
Decode(inp, scanp, ts) ==
    IF ts = "ObjectColon" THEN DecodeAfterColon(inp, SkipSpace(inp.bytes, scanp))
    ELSE IF ~tokenValueAllowed(ts) THEN DecodeFail(ErrSyntax)
    ELSE DecodeOf(inp, readValue(inp, scanp), ts)

\* ------------------------------------------------------ attachment stubs
\* the attachment names the model draws from, in the order json.Marshal
\* sorts map keys
AttNames == <<"a.txt", "b.png">>

SortedNames(S) == SelectSeq(AttNames, LAMBDA n : n \in S)

\* attachmentStubs with every entry given the content type of a text file
attachmentStubs_OneContentType(atts) ==
    [n \in DOMAIN atts |-> [content_type |-> "text/plain", follows |-> TRUE]]

\* attachmentStubs: name -> {content_type, follows: true}
attachmentStubs(atts) ==
    [n \in DOMAIN atts |-> [content_type |-> atts[n].ContentType, follows |-> TRUE]]

\* json.Marshal of one stub
EncodeStub(st) ==
    <<LBRACE, QUOTE, "content_type", QUOTE, COLON, QUOTE, st.content_type, QUOTE,
      COMMA, QUOTE, "follows", QUOTE, COLON,
      IF st.follows THEN "true" ELSE "false", RBRACE>>

RECURSIVE EncodeEntries(_, _)
EncodeEntries(stubs, names) ==
    IF names = <<>> THEN <<>>
    ELSE <<QUOTE, Head(names), QUOTE, COLON>> \o EncodeStub(stubs[Head(names)])
         \o (IF Len(names) > 1 THEN <<COMMA>> ELSE <<>>)
         \o EncodeEntries(stubs, Tail(names))

\* json.NewEncoder(w).Encode(att): the map with its keys sorted, then "\n"
EncodeStubs(stubs) ==
    <<LBRACE>> \o EncodeEntries(stubs, SortedNames(DOMAIN stubs)) \o <<RBRACE, NL>>

\* ---------------------------------------------------- copyWithAttachments
\* the writes of io.Copy(w, src) for a source that yields s: one Write per
\* full copy buffer
RECURSIVE CopyChunks(_)
CopyChunks(s) ==
    IF s = <<>> THEN <<>> ELSE <<Take(s, CopyBuf)>> \o CopyChunks(Drop(s, CopyBuf))

Continue == "continue"
CwaState(pc, scanp, ts, first) == [pc |-> pc, scanp |-> scanp, ts |-> ts, first |-> first]
CwaInit == CwaState("first", 1, "Top", TRUE)
CwaResult(d, writes, ret) == [d |-> d, writes |-> writes, ret |-> ret]

\* fmt.Fprintf(w, `"%s":`, tp): the decoded key between quotes, as it is
KeyChunk(tp) == <<QUOTE>> \o tp \o <<QUOTE, COLON>>

\* lines 323-336: the first token t
CwaFirst(d, t) ==
    IF t.kind = "err" THEN
        IF t.err # EOF THEN CwaResult(d, <<>>, t.err)
        ELSE CwaResult(CwaState("loop", d.scanp, d.ts, TRUE), << <<"<nil>">> >>, Continue)
    ELSE IF ~(t.kind = "delim" /\ t.val = <<LBRACE>>)
         THEN CwaResult(d, <<>>, ErrExpectedOpen)
    ELSE CwaResult(CwaState("loop", t.scanp, t.ts, TRUE), << <<LBRACE>> >>, Continue)

\* the writes before the value of a key: the comma unless first, the key
KeyWrites(d, t) == (IF d.first THEN <<>> ELSE << <<COMMA>> >>) \o <<KeyChunk(t.val)>>

\* Passthrough without io.Copy(w, dec.Buffered()): what the decoder holds
\* is not written
Passthrough_BufferedLost(inp, stubs, rest, nbuf) ==
    <<EncodeStubs(stubs)>> \o CopyChunks(Drop(rest, nbuf))

\* lines 361-372: the replacement, then the rest of the input as it is:
\* first what the decoder has buffered (at least the unit that ended a
\* literal or a string), then what is still in r
Passthrough(inp, stubs, rest, nbuf) ==
    <<EncodeStubs(stubs)>>
        \o (IF Take(rest, nbuf) = <<>> THEN <<>> ELSE <<Take(rest, nbuf)>>)
        \o CopyChunks(Drop(rest, nbuf))

Lookahead(raw) == IF raw[Len(raw)] \in {RBRACE, RBRACK} THEN 0 ELSE 1

\* lines 347-375: a string token t and the result v of dec.Decode(&val)
CwaKey(inp, stubs, d, nbuf, t, v) ==
    IF v.err # Nil THEN CwaResult(d, KeyWrites(d, t), v.err)
    ELSE IF t.val = <<attachmentsKey>> THEN
        CwaResult(d,
                  KeyWrites(d, t) \o
                  Passthrough(inp, stubs, Drop(inp.bytes, v.scanp - 1),
                              IF nbuf > Lookahead(v.raw) THEN nbuf ELSE Lookahead(v.raw)),
                  IF inp.err = EOF THEN Nil ELSE inp.err)
    ELSE CwaResult(CwaState("loop", v.scanp, v.ts, FALSE),
                   KeyWrites(d, t) \o <<v.raw>>, Continue)

\* lines 338-384: one iteration of the loop, t the token
CwaLoop(inp, stubs, d, nbuf, t) ==
    IF t.kind = "err" THEN CwaResult(d, <<>>, IF t.err = EOF THEN Nil ELSE t.err)
    ELSE IF t.kind = "string"
         THEN CwaKey(inp, stubs, d, nbuf, t, Decode(inp, t.scanp, t.ts))
    ELSE IF t.kind = "delim" THEN
        IF t.val # <<RBRACE>> THEN CwaResult(d, <<>>, ErrExpectedClose)
        ELSE CwaResult(CwaState("loop", t.scanp, t.ts, d.first), << <<RBRACE>> >>, Continue)
    ELSE CwaResult(CwaState("loop", t.scanp, t.ts, d.first), <<>>, Continue)

\* One step of copyWithAttachments: what it writes to w, in order, and then
\* either the error it returns (Nil for a nil error) or Continue.  The step
\* for pc "first" is lines 322-337, the step for pc "loop" one iteration of
\* the loop.  nbuf is how many of the units after the _attachments value the
\* decoder has buffered when the loop reaches it (dec.Buffered()).
CwaStep(inp, stubs, d, nbuf) ==
    IF d.pc = "first" THEN CwaFirst(d, Token(inp, d.scanp, d.ts))
    ELSE CwaLoop(inp, stubs, d, nbuf, Token(inp, d.scanp, d.ts))

\* ------------------------------------------------------------- io.Pipe
\* A pipe: buf is what is left of the Write in progress; werr and rerr are
\* the errors the write side and the read side were closed with ("none"
\* while open).
NoErr == "none"
PipeNew == [buf |-> <<>>, werr |-> NoErr, rerr |-> NoErr]
PipeDone(p) == p.werr # NoErr \/ p.rerr # NoErr

\* pipe.readCloseError / pipe.writeCloseError
readCloseError(p) == IF p.rerr = NoErr /\ p.werr # NoErr THEN p.werr ELSE ErrClosedPipe
writeCloseError(p) == IF p.werr = NoErr /\ p.rerr # NoErr THEN p.rerr ELSE ErrClosedPipe

\* PipeWriter.CloseWithError(err): a nil error closes with EOF; the first
\* error stored stays
closeWrite(p, err) ==
    [p EXCEPT !.werr = IF @ = NoErr THEN (IF err = Nil THEN EOF ELSE err) ELSE @]

\* PipeReader.Close()
closeRead(p) == [p EXCEPT !.rerr = IF @ = NoErr THEN ErrClosedPipe ELSE @]

\* PipeWriter.Write hands its bytes to the reader ...
WriteOffer(p, chunk) == [p EXCEPT !.buf = @ \o chunk]
\* WriteReturns of a buffering pipe: a Write returns at once
WriteReturns_Buffering(p) == TRUE
\* ... and returns once all of them were read, or the pipe was closed
WriteReturns(p) == p.buf = <<>> \/ PipeDone(p)
WriteResult(p) == IF p.buf = <<>> \/ ~PipeDone(p) THEN Nil ELSE writeCloseError(p)
WriteLeft(p) == IF WriteResult(p) = Nil THEN p ELSE [p EXCEPT !.buf = <<>>]

\* PipeReader.Read(b) with len(b) = n returns when a Write is in progress or
\* the pipe is closed
ReadReady(p) == PipeDone(p) \/ p.buf # <<>>
\* ReadData copying from the wrong end of the Write in progress
ReadData_FromEnd(p, n) == SubSeq(p.buf, Len(p.buf) - Min(n, Len(p.buf)) + 1, Len(p.buf))
ReadData(p, n) == Take(p.buf, n)
ReadLeft(p, n) == [p EXCEPT !.buf = Drop(@, n)]

\* ------------------------------------------------------ multipart.Writer
BOUNDARY == "--boundary"
CLOSEBOUNDARY == "--boundary--"
CRLF == "CRLF"

\* Writer.CreatePart for the first part: the boundary line, the header (keys
\* sorted) and the blank line, in one Write
DocHeader == <<BOUNDARY, "Content-Type", "application/json", CRLF>>
\* Writer.CreatePart for a later part: the same after a line break
AttHeader(filename, att) ==
    <<CRLF, BOUNDARY, "Content-Disposition", filename, "Content-Type", att.ContentType, CRLF>>
\* Writer.Close
ClosingBoundary == <<CRLF, CLOSEBOUNDARY>>

\* ------------------------------------------------------------ the inputs
\* kivik.Attachment: its content type, the units its content stream yields
\* and the position at which its Read fails (-1: it reads to a clean end)
Attachment(ct, content, failAt) ==
    [ContentType |-> ct, content |-> content, failAt |-> failAt]

AttContentType(n) == IF n = "a.txt" THEN "text/plain" ELSE "image/png"
AttContent(n) ==
    IF n = "a.txt" THEN [i \in 1..MaxAttLen |-> "h"] ELSE <<"p">>

\* the attachment sets of a run: any subset of the names, each stream either
\* good or failing after K units, K from 0 to its length
AttSets ==
    UNION { { f \in [S -> [ContentType : {"text/plain", "image/png"},
                           content : {AttContent(n) : n \in S},
                           failAt : -1..MaxAttLen]] :
                \A n \in S : /\ f[n].ContentType = AttContentType(n)
                             /\ f[n].content = AttContent(n)
                             /\ f[n].failAt <= Len(f[n].content) } :
            S \in SUBSET {"a.txt", "b.png"} }

\* the orders in which range *atts may visit a set
Orders(S) ==
    { o \in UNION { [1..n -> S] : n \in {Cardinality(S)} } :
        \A i, j \in DOMAIN o : i # j => o[i] # o[j] }

Str(u) == <<QUOTE, u, QUOTE>>

\* the document streams of a run of the pipeline
PipeDocs ==
    { \* {"_attachments":{},"c":2}
      Stream(<<LBRACE>> \o Str(attachmentsKey) \o <<COLON, LBRACE, RBRACE, COMMA>>
             \o Str("c") \o <<COLON, "2", RBRACE>>, EOF),
      \* {"a":1}
      Stream(<<LBRACE>> \o Str("a") \o <<COLON, "1", RBRACE>>, EOF),
      \* {"a"   (the stream ends after a key)
      Stream(<<LBRACE>> \o Str("a"), EOF),
      \* {"_attachments":1}   and then a failing Read
      Stream(<<LBRACE>> \o Str(attachmentsKey) \o <<COLON, "1", RBRACE>>, ErrRead),
      \* [
      Stream(<<LBRACK>>, EOF) }

\* the results of in.Close()
CloseResults == {Nil, ErrClose}

\* ---------------------------------------- the inputs of extractAttachments
\* A Go value as extractAttachments tells values apart: t its dynamic type,
\* ref what it refers to.  A kivik.Attachments is a map: ref 1 is the map
\* object of the run, 0 the nil map.  A *kivik.Attachments points to a
\* variable of that type: ref 1 is the variable of the run, 0 the nil pointer.
Value(t, ref) == [t |-> t, ref |-> ref]
NilValue == Value("nil", 0)
AttachmentsValue(ref) == Value("kivik.Attachments", ref)
AttachmentsPtr(ref) == Value("*kivik.Attachments", ref)
\* values of other types: a string, a number, the map[string]interface{} that
\* decoding a JSON document yields
OtherValues ==
    {Value("string", 0), Value("float64", 0), Value("map[string]interface{}", 0)}

\* the keys of a map document, the json tags of a struct's fields
FieldKeys == {attachmentsKey, "_attachments,omitempty"}
Field(key, val) == [key |-> key, val |-> val]
IdField == Field("_id", Value("string", 0))

\* A document: kind "map" is a map[string]interface{}, "struct" a struct,
\* "other" any other value that is no pointer; ptr is the number of pointers
\* around it; fields are its entries (key, value) or fields (json tag, value).
Document(kind, ptr, fields) == [kind |-> kind, ptr |-> ptr, fields |-> fields]

FieldSeqs ==
    {<<IdField>>} \cup
    UNION { { <<IdField, Field(k, v)>>, <<Field(k, v), IdField>> } :
              k \in FieldKeys,
              v \in {AttachmentsValue(0), AttachmentsValue(1), AttachmentsPtr(0),
                     AttachmentsPtr(1)} \cup OtherValues }

Documents ==
    { Document(kind, ptr, f) : kind \in {"map", "struct"}, ptr \in 0..MaxPtr, f \in FieldSeqs }
    \cup { Document("other", ptr, <<>>) : ptr \in 0..MaxPtr }

\* the contents a kivik.Attachments map may have
AttMaps == { a \in AttSets : \A n \in DOMAIN a : a[n].failAt = -1 }
NoEntries == [n \in {} |-> Attachment("", <<>>, -1)]

\* the values of the document's fields
FieldValues(d) == { d.fields[i].val : i \in DOMAIN d.fields }

\* The heaps a document may come with: the entries of the map object and what
\* the pointer variable holds (1 the map object, 0 the nil map).  Only what
\* the document refers to varies.
Heaps(d) ==
    IF AttachmentsValue(1) \in FieldValues(d)
    THEN { [map |-> m, cell |-> 0] : m \in AttMaps }
    ELSE IF AttachmentsPtr(1) \in FieldValues(d)
    THEN { [map |-> m, cell |-> 1] : m \in AttMaps } \cup { [map |-> NoEntries, cell |-> 0] }
    ELSE { [map |-> NoEntries, cell |-> 0] }

ExtractInputs ==
    UNION { { [doc |-> d, map |-> h.map, cell |-> h.cell] : h \in Heaps(d) } : d \in Documents }

\* stdMap[attachmentsKey]: the entry's value, nil when there is none
MapIndex(fields) ==
    IF \E i \in DOMAIN fields : fields[i].key = attachmentsKey
    THEN fields[CHOOSE i \in DOMAIN fields : fields[i].key = attachmentsKey].val
    ELSE NilValue

\* the loop over the struct's fields: the value of the first field whose json
\* tag is attachmentsKey; without one the function returns (nil, false), as
\* interfaceToAttachments does for nil
RECURSIVE TaggedField(_)
TaggedField(fields) ==
    IF fields = <<>> THEN NilValue
    ELSE IF Head(fields).key = attachmentsKey THEN Head(fields).val
    ELSE TaggedField(Tail(fields))

\* extractAttachments up to its call of interfaceToAttachments: the value it
\* hands over (nil where it returns (nil, false) itself)
RECURSIVE extractAttachments(_)
extractAttachments(d) ==
    IF d.ptr > 0 THEN extractAttachments([d EXCEPT !.ptr = @ - 1])
    ELSE IF d.kind = "map" THEN MapIndex(d.fields)
    ELSE IF d.kind # "struct" THEN NilValue
    ELSE TaggedField(d.fields)

\* what extractAttachments returns: the set behind the returned pointer (no
\* entries for a nil pointer) and found
Extracted(isNil, entries, found) == [isNil |-> isNil, entries |-> entries, found |-> found]
NotExtracted == Extracted(TRUE, NoEntries, FALSE)

\* ------------------------------------------------ the inputs of EncodeBody
\* the errors of json.Encoder.Encode that EncodeBody wraps
ErrMarshaler == "json.MarshalerError"
ErrUnsupportedType == "json.UnsupportedTypeError"
ErrUnsupportedValue == "json.UnsupportedValueError"
EncodeErrors == {ErrMarshaler, ErrUnsupportedType, ErrUnsupportedValue}

\* errors.WrapStatus(kivik.StatusBadAPICall, err)
WrapStatus(e) ==
    CASE e = ErrMarshaler -> "StatusBadAPICall: json.MarshalerError"
      [] e = ErrUnsupportedType -> "StatusBadAPICall: json.UnsupportedTypeError"
      [] e = ErrUnsupportedValue -> "StatusBadAPICall: json.UnsupportedValueError"
      [] OTHER -> e

\* The value i: t is its type as the switch sees it ("value" for the default
\* case), data the bytes it holds or encodes to (without the newline of the
\* encoder), err the error of encoding it (Nil: none).
BodyValue(t, data, err) == [t |-> t, data |-> data, err |-> err]

BodyData == { <<"x">>, <<"x", "y">>, <<"x", "y", "z">> }

BodyValues ==
    { BodyValue(t, d, Nil) : t \in {"[]byte", "json.RawMessage", "string", "value"},
                             d \in BodyData }
    \cup { BodyValue("value", <<>>, e) : e \in EncodeErrors }

\* what reaches the pipe for i: the bytes as they are, or the encoding and
\* the newline json.Encoder adds
BodyBytes(i) == IF i.t = "value" THEN i.data \o <<NL>> ELSE i.data

\* ----------------------------------------------- the inputs of Client.Auth
\* the authenticators handed to Auth: two *BasicAuth and one Authenticator
\* of another type, whose Authenticate may fail
BasicAuths == {"basic1", "basic2"}
OtherAuth == "other"
Authenticators == BasicAuths \cup {OtherAuth}

NoAuth == "nil"
NilTransport == "nil"
DefaultTransport == "http.DefaultTransport"
ErrAuthSet == "auth already set"
ErrAuthFailed == "ErrAuthFailed"

\* one call of Auth as the caller saw it: the authenticator, whether its
\* Authenticate was invoked, the error returned, and c.auth and c.Transport
\* when the call returned
AuthCall(a, invoked, ret, auth, transport) ==
    [a |-> a, invoked |-> invoked, ret |-> ret, auth |-> auth, transport |-> transport]

\* --------------------------------------------------------------- state
VARIABLES
    inDoc,      \* the document stream in: its units and its terminal Read error
    inCloses,   \* the calls of in.Close() so far: [by |-> task, res |-> error]
    atts,       \* the attachments: name -> Attachment
    order,      \* the order in which range *atts visits the names in this run
    attPos,     \* name -> units read from the attachment's content so far
    attClosed,  \* name -> number of calls of att.Close()
    attFailed,  \* the names whose Read has returned its error
    p1,         \* the pipe of multipartAttachments (assembler -> consumer)
    p2,         \* the pipe of replaceAttachments (rewriter -> assembler)
    pcA,        \* where the goroutine of multipartAttachments is
    aBuf,       \* the copy buffer of the io.Copy the assembler is in
    aIdx,       \* index in order of the attachment the assembler is at
    aErr,       \* err of the goroutine of multipartAttachments
    pcR,        \* where the goroutine of replaceAttachments is
    dec,        \* the state of copyWithAttachments
    rq,         \* the writes of the current step copyWithAttachments has yet to make
    rRet,       \* what copyWithAttachments returns after them (Continue: goes on)
    rErr,       \* err of the goroutine of replaceAttachments
    consumed,   \* the units the consumer has read from the body stream
    cRes,       \* the error that ended the consumer's reads (NoErr: none yet)
    cClosed,    \* the consumer has closed the body stream
    wrote1,     \* the units handed to Write on p1 so far
    wrote2,     \* the units handed to Write on p2 (or to w) so far
    w1len       \* the length of the last Write on p1

VARIABLES
    exIn,       \* extractAttachments: the document and its heap when it was called
    exMap,      \* the entries of the document's kivik.Attachments map object now
    exCell,     \* what the document's *kivik.Attachments points to now
    exOut,      \* the entries of the map atts the function builds
    exRes,      \* what the function returned
    pcX         \* where extractAttachments is

extractVars == <<exIn, exMap, exCell, exOut, exRes, pcX>>

VARIABLES
    ebI,        \* EncodeBody: the value i
    ebPipe,     \* the pipe r, w
    pcEB,       \* where the goroutine of EncodeBody is
    ebErr,      \* err of the goroutine
    ebDone,     \* the channel done is closed
    ebGot,      \* the units the consumer has read from the ebReader
    ebRes,      \* the error that ended the consumer's reads (NoErr: none yet)
    pcEC        \* where the consumer's call of ebReader.Close is

encodeVars == <<ebI, ebPipe, pcEB, ebErr, ebDone, ebGot, ebRes, pcEC>>

VARIABLES
    cAuth,          \* Client.auth: NoAuth or the authenticator installed
    cTransport,     \* Client.Transport: NilTransport or the round tripper set
    baTransport,    \* BasicAuth.transport of each *BasicAuth ("unset" before Authenticate)
    authCalls       \* the calls of Auth on the client so far

authVars == <<cAuth, cTransport, baTransport, authCalls>>

\* the state of the functions that take no part in the pipeline
otherVars == <<extractVars, encodeVars, authVars>>

vars == <<otherVars, inDoc, inCloses, atts, order, attPos, attClosed, attFailed, p1, p2, pcA, aBuf, aIdx,
          aErr, pcR, dec, rq, rRet, rErr, consumed, cRes, cClosed, wrote1, wrote2,
          w1len>>

inputVars == <<inDoc, atts, order>>
aVars == <<pcA, aBuf, aIdx, aErr>>
rVars == <<pcR, dec, rq, rRet, rErr>>
cVars == <<consumed, cRes, cClosed>>
attVars == <<attPos, attClosed, attFailed>>

\* extractAttachments with input x, at pc
StartExtract(x, pc) ==
    /\ exIn = x
    /\ exMap = x.map
    /\ exCell = x.cell
    /\ exOut = NoEntries
    /\ exRes = NotExtracted
    /\ pcX = pc

NoExtract == StartExtract([doc |-> Document("other", 0, <<>>), map |-> NoEntries, cell |-> 0], "off")

\* EncodeBody(i) has returned its reader; the goroutine is at pc
StartEncode(i, pc) ==
    /\ ebI = i
    /\ ebPipe = PipeNew
    /\ pcEB = pc
    /\ ebErr = Nil
    /\ ebDone = FALSE
    /\ ebGot = <<>>
    /\ ebRes = NoErr
    /\ pcEC = "open"

NoEncode == StartEncode(BodyValue("string", <<>>, Nil), "off")

\* a new Client without user info: no authenticator, the default transport
NewClient ==
    /\ cAuth = NoAuth
    /\ cTransport = NilTransport
    /\ baTransport = [b \in BasicAuths |-> "unset"]
    /\ authCalls = <<>>

\* the pipeline with its inputs, its two goroutines at pa and pr
StartPipeline(doc, a, o, pa, pr) ==
    /\ inDoc = doc
    /\ inCloses = <<>>
    /\ atts = a
    /\ order = o
    /\ attPos = [n \in DOMAIN a |-> 0]
    /\ attClosed = [n \in DOMAIN a |-> 0]
    /\ attFailed = {}
    /\ p1 = PipeNew
    /\ p2 = PipeNew
    /\ pcA = pa
    /\ aBuf = <<>>
    /\ aIdx = 1
    /\ aErr = Nil
    /\ pcR = pr
    /\ dec = CwaInit
    /\ rq = <<>>
    /\ rRet = Continue
    /\ rErr = Nil
    /\ consumed = <<>>
    /\ cRes = NoErr
    /\ cClosed = FALSE
    /\ wrote1 = <<>>
    /\ wrote2 = <<>>
    /\ w1len = 0

Start(doc, a, o, pa, pr) ==
    NoExtract /\ NoEncode /\ NewClient /\ StartPipeline(doc, a, o, pa, pr)

\* multipartAttachments(in, att) has returned: its goroutine is about to run
Init ==
    \E doc \in PipeDocs, a \in AttSets :
        \E o \in Orders(DOMAIN a) : Start(doc, a, o, "createDoc", "off")

\* ------------------------------------- the goroutine of multipartAttachments
\* a Write on p1 begins: the call fails at once on a closed pipe
ABeginWrite(chunk, waitpc) ==
    /\ IF PipeDone(p1)
       THEN /\ aErr' = writeCloseError(p1)
            /\ pcA' = "closeIn"
            /\ UNCHANGED <<p1, wrote1, w1len>>
       ELSE /\ p1' = WriteOffer(p1, chunk)
            /\ wrote1' = wrote1 \o chunk
            /\ w1len' = Len(chunk)
            /\ pcA' = waitpc
            /\ aErr' = aErr
    /\ UNCHANGED <<inputVars, otherVars, inCloses, attVars, p2, aBuf, aIdx, rVars, cVars, wrote2>>

\* a Write on p1 returns: nil goes on at okpc, an error ends createMultipart
AEndWrite(waitpc, okpc) ==
    /\ pcA = waitpc
    /\ WriteReturns(p1)
    /\ p1' = WriteLeft(p1)
    /\ IF WriteResult(p1) = Nil
       THEN pcA' = okpc /\ aErr' = aErr
       ELSE pcA' = "closeIn" /\ aErr' = WriteResult(p1)

\* createMultipart: w.CreatePart for the document part
A_CreateDocPart ==
    /\ pcA = "createDoc"
    /\ ABeginWrite(DocHeader, "docHeader")

\* CreatePart returns; replaceAttachments starts its goroutine and io.Copy
\* from attJSON to the document part begins
A_DocPartCreated ==
    /\ AEndWrite("docHeader", "copyRead")
    /\ pcR' = IF WriteResult(p1) = Nil THEN "run" ELSE pcR
    /\ UNCHANGED <<inputVars, otherVars, inCloses, attVars, p2, aBuf, aIdx, dec, rq, rRet, rErr,
                   cVars, wrote1, wrote2, w1len>>

\* io.Copy(doc, attJSON): a Read of attJSON
A_CopyRead ==
    /\ pcA = "copyRead"
    /\ ReadReady(p2)
    /\ IF PipeDone(p2)
       THEN /\ IF readCloseError(p2) = EOF
               THEN pcA' = "attLoop" /\ aErr' = aErr
               ELSE pcA' = "closeIn" /\ aErr' = readCloseError(p2)
            /\ UNCHANGED <<p2, aBuf>>
       ELSE /\ aBuf' = ReadData(p2, CopyBuf)
            /\ p2' = ReadLeft(p2, CopyBuf)
            /\ pcA' = "copyWrite"
            /\ aErr' = aErr
    /\ UNCHANGED <<inputVars, otherVars, inCloses, attVars, p1, aIdx, rVars, cVars, wrote1, wrote2,
                   w1len>>

\* io.Copy(doc, attJSON): the Write of what was read
A_CopyWrite ==
    /\ pcA = "copyWrite"
    /\ ABeginWrite(aBuf, "copyWritten")

A_CopyWritten ==
    /\ AEndWrite("copyWritten", "copyRead")
    /\ UNCHANGED <<inputVars, otherVars, inCloses, attVars, p2, aBuf, aIdx, rVars, cVars, wrote1,
                   wrote2, w1len>>

\* the loop over *atts: w.CreatePart for the next attachment
A_CreateAttPart ==
    /\ pcA = "attLoop"
    /\ aIdx <= Len(order)
    /\ ABeginWrite(AttHeader(order[aIdx], atts[order[aIdx]]), "attHeader")

A_AttPartCreated ==
    /\ AEndWrite("attHeader", "attRead")
    /\ UNCHANGED <<inputVars, otherVars, inCloses, attVars, p2, aBuf, aIdx, rVars, cVars, wrote1,
                   wrote2, w1len>>

\* A_AttRead with the error of io.Copy(file, att) dropped: the loop goes on
\* to the next attachment
A_AttRead_ErrorDropped ==
    /\ pcA = "attRead"
    /\ LET n == order[aIdx]
           att == atts[n]
           pos == attPos[n]
           upto == IF att.failAt >= 0 THEN att.failAt ELSE Len(att.content)
       IN  IF pos = att.failAt \/ pos = Len(att.content)
           THEN /\ attFailed' = IF pos = att.failAt THEN attFailed \cup {n} ELSE attFailed
                /\ attClosed' = [attClosed EXCEPT ![n] = @ + 1]
                /\ aIdx' = aIdx + 1
                /\ pcA' = "attLoop"
                /\ UNCHANGED <<aBuf, aErr, attPos>>
           ELSE /\ aBuf' = SubSeq(att.content, pos + 1, Min(pos + CopyBuf, upto))
                /\ attPos' = [attPos EXCEPT ![n] = Min(pos + CopyBuf, upto)]
                /\ pcA' = "attWrite"
                /\ UNCHANGED <<aErr, aIdx, attClosed, attFailed>>
    /\ UNCHANGED <<inputVars, otherVars, inCloses, p1, p2, rVars, cVars, wrote1, wrote2, w1len>>

\* A_AttRead without att.Close() after a copy that succeeded
A_AttRead_NotClosed ==
    /\ pcA = "attRead"
    /\ LET n == order[aIdx]
           att == atts[n]
           pos == attPos[n]
           upto == IF att.failAt >= 0 THEN att.failAt ELSE Len(att.content)
       IN  IF pos = att.failAt
           THEN /\ aErr' = ErrAtt
                /\ attFailed' = attFailed \cup {n}
                /\ pcA' = "closeIn"
                /\ UNCHANGED <<aBuf, aIdx, attPos, attClosed>>
           ELSE IF pos = Len(att.content)
           THEN /\ aIdx' = aIdx + 1
                /\ pcA' = "attLoop"
                /\ UNCHANGED <<aBuf, aErr, attPos, attFailed, attClosed>>
           ELSE /\ aBuf' = SubSeq(att.content, pos + 1, Min(pos + CopyBuf, upto))
                /\ attPos' = [attPos EXCEPT ![n] = Min(pos + CopyBuf, upto)]
                /\ pcA' = "attWrite"
                /\ UNCHANGED <<aErr, aIdx, attClosed, attFailed>>
    /\ UNCHANGED <<inputVars, otherVars, inCloses, p1, p2, rVars, cVars, wrote1, wrote2, w1len>>

\* io.Copy(file, att): a Read of the attachment.  An error ends
\* createMultipart; a clean end ends io.Copy, and att.Close() follows.
A_AttRead ==
    /\ pcA = "attRead"
    /\ LET n == order[aIdx]
           att == atts[n]
           pos == attPos[n]
           upto == IF att.failAt >= 0 THEN att.failAt ELSE Len(att.content)
       IN  IF pos = att.failAt
           THEN /\ aErr' = ErrAtt
                /\ attFailed' = attFailed \cup {n}
                /\ pcA' = "closeIn"
                /\ UNCHANGED <<aBuf, aIdx, attPos, attClosed>>
           ELSE IF pos = Len(att.content)
           THEN /\ attClosed' = [attClosed EXCEPT ![n] = @ + 1]
                /\ aIdx' = aIdx + 1
                /\ pcA' = "attLoop"
                /\ UNCHANGED <<aBuf, aErr, attPos, attFailed>>
           ELSE /\ aBuf' = SubSeq(att.content, pos + 1, Min(pos + CopyBuf, upto))
                /\ attPos' = [attPos EXCEPT ![n] = Min(pos + CopyBuf, upto)]
                /\ pcA' = "attWrite"
                /\ UNCHANGED <<aErr, aIdx, attClosed, attFailed>>
    /\ UNCHANGED <<inputVars, otherVars, inCloses, p1, p2, rVars, cVars, wrote1, wrote2, w1len>>

A_AttWrite ==
    /\ pcA = "attWrite"
    /\ ABeginWrite(aBuf, "attWritten")

A_AttWritten ==
    /\ AEndWrite("attWritten", "attRead")
    /\ UNCHANGED <<inputVars, otherVars, inCloses, attVars, p2, aBuf, aIdx, rVars, cVars, wrote1,
                   wrote2, w1len>>

\* A_CloseBody without w.Close(): createMultipart returns nil after the loop
A_CloseBody_NoClose ==
    /\ pcA = "attLoop"
    /\ aIdx > Len(order)
    /\ pcA' = "closeIn"
    /\ UNCHANGED <<inputVars, otherVars, inCloses, attVars, p1, p2, aBuf, aIdx, aErr, rVars, cVars,
                   wrote1, wrote2, w1len>>

\* after the loop: w.Close() writes the closing boundary
A_CloseBody ==
    /\ pcA = "attLoop"
    /\ aIdx > Len(order)
    /\ ABeginWrite(ClosingBoundary, "bodyClosed")

A_BodyClosed ==
    /\ AEndWrite("bodyClosed", "closeIn")
    /\ UNCHANGED <<inputVars, otherVars, inCloses, attVars, p2, aBuf, aIdx, rVars, cVars, wrote1,
                   wrote2, w1len>>

\* A_CloseIn with in closed only when createMultipart returned nil
A_CloseIn_OnSuccessOnly ==
    /\ pcA = "closeIn"
    /\ \E e \in CloseResults :
        /\ inCloses' = IF aErr = Nil THEN Append(inCloses, [by |-> "A", res |-> e])
                       ELSE inCloses
        /\ aErr' = IF aErr = Nil THEN e ELSE aErr
    /\ pcA' = "closePipe"
    /\ UNCHANGED <<inputVars, otherVars, attVars, p1, p2, aBuf, aIdx, rVars, cVars, wrote1, wrote2,
                   w1len>>

\* e := in.Close(); if err == nil { err = e }
A_CloseIn ==
    /\ pcA = "closeIn"
    /\ \E e \in CloseResults :
        /\ inCloses' = Append(inCloses, [by |-> "A", res |-> e])
        /\ aErr' = IF aErr = Nil THEN e ELSE aErr
    /\ pcA' = "closePipe"
    /\ UNCHANGED <<inputVars, otherVars, attVars, p1, p2, aBuf, aIdx, rVars, cVars, wrote1, wrote2,
                   w1len>>

\* _ = w.CloseWithError(err)
A_ClosePipe ==
    /\ pcA = "closePipe"
    /\ p1' = closeWrite(p1, aErr)
    /\ pcA' = "done"
    /\ UNCHANGED <<inputVars, otherVars, inCloses, attVars, p2, aBuf, aIdx, aErr, rVars, cVars,
                   wrote1, wrote2, w1len>>

\* -------------------------------------- the goroutine of replaceAttachments
ErrReadClosed == "ErrReadClosed"

\* What copyWithAttachments can read from in.  Once the other goroutine has
\* closed in, a Read that goes to the stream may still yield its bytes or
\* fail: both outcomes are possible for an io.ReadCloser.
InViews ==
    {inDoc} \cup
    (IF \E i \in DOMAIN inCloses : inCloses[i].by = "A"
     THEN {Stream(Take(inDoc.bytes, dec.scanp - 1), ErrReadClosed)}
     ELSE {})

\* how much of the rest of the input the decoder may hold when the loop
\* reaches _attachments: nothing more than it needed, or all of it
Buffered == {0, Len(inDoc.bytes)}

\* copyWithAttachments runs up to its next writes or its return
R_Step ==
    /\ pcR = "run"
    /\ rq = <<>>
    /\ rRet = Continue
    /\ \E inp \in InViews, nbuf \in Buffered :
        LET r == CwaStep(inp, attachmentStubs(atts), dec, nbuf) IN
        /\ dec' = r.d
        /\ rq' = r.writes
        /\ rRet' = r.ret
    /\ UNCHANGED <<inputVars, otherVars, inCloses, attVars, p1, p2, aVars, pcR, rErr, cVars, wrote1,
                   wrote2, w1len>>

\* a Write of copyWithAttachments on w begins
R_Write ==
    /\ pcR = "run"
    /\ rq # <<>>
    /\ IF PipeDone(p2)
       THEN /\ rErr' = writeCloseError(p2)
            /\ pcR' = "closeIn"
            /\ rq' = <<>>
            /\ UNCHANGED <<p2, wrote2>>
       ELSE /\ p2' = WriteOffer(p2, Head(rq))
            /\ wrote2' = wrote2 \o Head(rq)
            /\ pcR' = "written"
            /\ UNCHANGED <<rq, rErr>>
    /\ UNCHANGED <<inputVars, otherVars, inCloses, attVars, p1, aVars, dec, rRet, cVars, wrote1,
                   w1len>>

\* the Write returns: nil goes on, an error is what copyWithAttachments returns
R_Written ==
    /\ pcR = "written"
    /\ WriteReturns(p2)
    /\ p2' = WriteLeft(p2)
    /\ IF WriteResult(p2) = Nil
       THEN pcR' = "run" /\ rq' = Tail(rq) /\ rErr' = rErr
       ELSE pcR' = "closeIn" /\ rq' = <<>> /\ rErr' = WriteResult(p2)
    /\ UNCHANGED <<inputVars, otherVars, inCloses, attVars, p1, aVars, dec, rRet, cVars, wrote1,
                   wrote2, w1len>>

\* err := copyWithAttachments(...) returns
R_Return ==
    /\ pcR = "run"
    /\ rq = <<>>
    /\ rRet # Continue
    /\ rErr' = rRet
    /\ pcR' = "closeIn"
    /\ UNCHANGED <<inputVars, otherVars, inCloses, attVars, p1, p2, aVars, dec, rq, rRet, cVars,
                   wrote1, wrote2, w1len>>

\* e := in.Close(); if err == nil { err = e }
R_CloseIn ==
    /\ pcR = "closeIn"
    /\ \E e \in CloseResults :
        /\ inCloses' = Append(inCloses, [by |-> "R", res |-> e])
        /\ rErr' = IF rErr = Nil THEN e ELSE rErr
    /\ pcR' = "closePipe"
    /\ UNCHANGED <<inputVars, otherVars, attVars, p1, p2, aVars, dec, rq, rRet, cVars, wrote1,
                   wrote2, w1len>>

\* _ = w.CloseWithError(err)
R_ClosePipe ==
    /\ pcR = "closePipe"
    /\ p2' = closeWrite(p2, rErr)
    /\ pcR' = "done"
    /\ UNCHANGED <<inputVars, otherVars, inCloses, attVars, p1, aVars, dec, rq, rRet, rErr, cVars,
                   wrote1, wrote2, w1len>>

\* ------------------------------------ the consumer of the returned stream
\* a Read with a buffer of n bytes: data of the Write in progress, or the
\* error the write side was closed with
C_Read ==
    /\ cRes = NoErr
    /\ ~cClosed
    /\ ReadReady(p1)
    /\ IF PipeDone(p1)
       THEN /\ cRes' = readCloseError(p1)
            /\ UNCHANGED <<p1, consumed>>
       ELSE \E n \in 1..MaxRead :
            /\ consumed' = consumed \o ReadData(p1, n)
            /\ p1' = ReadLeft(p1, n)
            /\ cRes' = cRes
    /\ UNCHANGED <<inputVars, otherVars, inCloses, attVars, p2, aVars, rVars, cClosed, wrote1,
                   wrote2, w1len>>

\* the consumer gives the body up: Close on the read side
C_Close ==
    /\ cRes = NoErr
    /\ ~cClosed
    /\ p1' = closeRead(p1)
    /\ cClosed' = TRUE
    /\ UNCHANGED <<inputVars, otherVars, inCloses, attVars, p2, aVars, rVars, consumed, cRes,
                   wrote1, wrote2, w1len>>

ANext ==
    \/ A_CreateDocPart \/ A_DocPartCreated \/ A_CopyRead \/ A_CopyWrite \/ A_CopyWritten
    \/ A_CreateAttPart \/ A_AttPartCreated \/ A_AttRead \/ A_AttWrite \/ A_AttWritten
    \/ A_CloseBody \/ A_BodyClosed \/ A_CloseIn \/ A_ClosePipe

RNext == R_Step \/ R_Write \/ R_Written \/ R_Return \/ R_CloseIn \/ R_ClosePipe

CNext == C_Read \/ C_Close

Next == ANext \/ RNext \/ CNext

Spec == Init /\ [][Next]_vars

\* ------------------------------- copyWithAttachments as a function of its input
\* json.Marshal of a string: quote and backslash escaped
RECURSIVE EscapeUnits(_)
EscapeUnits(k) ==
    IF k = <<>> THEN <<>>
    ELSE (IF Head(k) \in {QUOTE, BSLASH} THEN <<BSLASH, Head(k)>> ELSE <<Head(k)>>)
         \o EscapeUnits(Tail(k))
EncodeString(k) == <<QUOTE>> \o EscapeUnits(k) \o <<QUOTE>>

\* the keys and the values (as JSON text) of the generated objects
DocKeys == {<<"a">>, <<"c">>, <<attachmentsKey>>, <<"a", QUOTE>>, <<BSLASH>>}
DocValues ==
    {<<"1">>, Str("c"),
     <<LBRACE>> \o Str(attachmentsKey) \o <<COLON, "2", RBRACE>>}

RECURSIVE EncodeMembers(_)
EncodeMembers(ms) ==
    IF ms = <<>> THEN <<>>
    ELSE EncodeString(Head(ms)[1]) \o <<COLON>> \o Head(ms)[2]
         \o (IF Len(ms) > 1 THEN <<COMMA>> ELSE <<>>)
         \o EncodeMembers(Tail(ms))

\* the JSON objects with at most MaxMembers members and no key twice
MemberSeqs ==
    UNION { { ms \in [1..n -> DocKeys \X DocValues] :
                \A i, j \in 1..n : i # j => ms[i][1] # ms[j][1] } :
            n \in 0..MaxMembers }
ObjectDocs == { <<LBRACE>> \o EncodeMembers(ms) \o <<RBRACE>> : ms \in MemberSeqs }

\* inputs that are no object: the empty stream, white space only, and texts
\* that start with '[', a string, a number or a literal
OtherDocs ==
    { <<>>, <<SP>>, <<LBRACK, RBRACK>>, <<LBRACK, "1", RBRACK>>, Str("c"), <<"1">>,
      <<"true">>, <<"null">>, <<SP, "1">> }

\* objects as an encoder or a person formats them: json.Encoder ends its
\* output with a newline; white space may stand between the tokens
FormattedDocs ==
    { <<LBRACE>> \o Str("a") \o <<COLON, "1", RBRACE, NL>>,
      <<LBRACE, SP>> \o Str("a") \o <<SP, COLON, SP, "1", SP, RBRACE>>,
      <<LBRACE>> \o Str("a") \o <<COLON, LBRACK, "1", COMMA, SP, "2", RBRACK, RBRACE>>,
      <<LBRACE>> \o Str(attachmentsKey) \o <<COLON, LBRACE, RBRACE, COMMA, SP>>
                 \o Str("c") \o <<COLON, "2", RBRACE, NL>> }

\* an object without _attachments, {"a":[1],"c":2}, and the streams that end
\* somewhere in it: every proper prefix from '{' on
WholeDoc ==
    <<LBRACE>> \o Str("a") \o <<COLON, LBRACK, "1", RBRACK, COMMA>>
               \o Str("c") \o <<COLON, "2", RBRACE>>
TruncatedDocs == { Take(WholeDoc, n) : n \in 1..(Len(WholeDoc) - 1) }

\* objects in which _attachments comes again after its first value, as a
\* key and nested, with bytes after the closing brace
RepeatDocs ==
    { <<LBRACE>> \o Str(attachmentsKey) \o <<COLON, "1", COMMA>>
                 \o Str(attachmentsKey) \o <<COLON, LBRACE>> \o Str(attachmentsKey)
                 \o <<COLON, "2", RBRACE, RBRACE, NL>>,
      <<LBRACE>> \o Str("a") \o <<COLON, "1", COMMA>>
                 \o Str(attachmentsKey) \o <<COLON, LBRACK, "1", RBRACK, SP, COMMA>>
                 \o Str(attachmentsKey) \o <<COLON, "2", RBRACE, SP, RBRACE>> }

RewriteDocs ==
    ObjectDocs \cup OtherDocs \cup FormattedDocs \cup TruncatedDocs \cup {WholeDoc}
    \cup RepeatDocs

\* copyWithAttachments(w, r, att) is called with w a buffer that takes every
\* write and r a reader of one of the objects
InitRewrite ==
    \E doc \in RewriteDocs, a \in {x \in AttSets : \A n \in DOMAIN x : x[n].failAt = -1} :
        Start(Stream(doc, EOF), a, SortedNames(DOMAIN a), "off", "fn")

\* one step of copyWithAttachments, its writes appended to the buffer
Rewrite ==
    /\ pcR = "fn"
    /\ rRet = Continue
    /\ \E nbuf \in Buffered :
        LET r == CwaStep(inDoc, attachmentStubs(atts), dec, nbuf) IN
        /\ dec' = r.d
        /\ wrote2' = wrote2 \o Flatten(r.writes)
        /\ rRet' = r.ret
        /\ rErr' = IF r.ret = Continue THEN rErr ELSE r.ret
        /\ pcR' = IF r.ret = Continue THEN "fn" ELSE "returned"
    /\ UNCHANGED <<inputVars, otherVars, inCloses, attVars, p1, p2, aVars, rq, cVars, wrote1, w1len>>

NextRewrite == Rewrite

SpecRewrite == InitRewrite /\ [][NextRewrite]_vars

\* ------------------------------------------- the pipeline on one document
\* the text of a document with _id, title and _attachments, the value of
\* _attachments being v
ExampleDoc(v) ==
    <<LBRACE>> \o Str("_id") \o <<COLON>> \o Str("doc1") \o <<COMMA>>
               \o Str("title") \o <<COLON>> \o Str("x") \o <<COMMA>>
               \o Str(attachmentsKey) \o <<COLON>> \o v \o <<RBRACE>>

\* values of _attachments: an empty object, a number, the attachment inline
ExampleValues ==
    { <<LBRACE, RBRACE>>,
      <<"1">>,
      <<LBRACE>> \o Str("a.txt") \o <<COLON, LBRACE>> \o Str("data") \o <<COLON>>
                 \o Str("aGk=") \o <<RBRACE, RBRACE>> }

\* the attachment a.txt: text/plain, content hi, its Read never fails
ExampleAtts == [n \in {"a.txt"} |-> Attachment("text/plain", <<"h", "i">>, -1)]

\* multipartAttachments(in, att) on the document and the attachment
InitExample ==
    \E v \in ExampleValues :
        Start(Stream(ExampleDoc(v), EOF), ExampleAtts, <<"a.txt">>, "createDoc", "off")

SpecExample == InitExample /\ [][Next]_vars

\* ------------------------------------------------------ extractAttachments
\* the pipeline at rest
NoPipeline == StartPipeline(Stream(<<>>, EOF), NoEntries, <<>>, "off", "off")

InitExtract == NoPipeline /\ NoEncode /\ NewClient /\ \E x \in ExtractInputs : StartExtract(x, "call")

pipeVars == <<inputVars, inCloses, attVars, p1, p2, aVars, rVars, cVars, wrote1, wrote2, w1len>>

\* X_Call without the *t = nil of the pointer case
X_Call_PointerKept ==
    /\ pcX = "call"
    /\ IF extractAttachments(exIn.doc).t = "kivik.Attachments"
       THEN /\ pcX' = "range"
            /\ UNCHANGED <<exMap, exCell, exOut, exRes>>
       ELSE IF extractAttachments(exIn.doc).t = "*kivik.Attachments"
       THEN IF extractAttachments(exIn.doc).ref = 0
            THEN /\ pcX' = "panic"
                 /\ UNCHANGED <<exMap, exCell, exOut, exRes>>
            ELSE /\ exOut' = IF exCell = 1 THEN exMap ELSE NoEntries
                 /\ exRes' = Extracted(FALSE, exOut', TRUE)
                 /\ pcX' = "done"
                 /\ UNCHANGED <<exMap, exCell>>
       ELSE /\ exRes' = NotExtracted
            /\ pcX' = "done"
            /\ UNCHANGED <<exMap, exCell, exOut>>
    /\ UNCHANGED <<exIn, encodeVars, authVars, pipeVars>>

\* extractAttachments(doc) down to the type switch of interfaceToAttachments
X_Call ==
    /\ pcX = "call"
    /\ IF extractAttachments(exIn.doc).t = "kivik.Attachments"
       THEN \* atts := make(kivik.Attachments, len(t)); the loop follows
            /\ pcX' = "range"
            /\ UNCHANGED <<exMap, exCell, exOut, exRes>>
       ELSE IF extractAttachments(exIn.doc).t = "*kivik.Attachments"
       THEN IF extractAttachments(exIn.doc).ref = 0
            THEN \* *t of a nil pointer
                 /\ pcX' = "panic"
                 /\ UNCHANGED <<exMap, exCell, exOut, exRes>>
            ELSE \* atts := new(kivik.Attachments); *atts = *t; *t = nil
                 /\ exOut' = IF exCell = 1 THEN exMap ELSE NoEntries
                 /\ exCell' = 0
                 /\ exRes' = Extracted(FALSE, exOut', TRUE)
                 /\ pcX' = "done"
                 /\ UNCHANGED exMap
       ELSE /\ exRes' = NotExtracted
            /\ pcX' = "done"
            /\ UNCHANGED <<exMap, exCell, exOut>>
    /\ UNCHANGED <<exIn, encodeVars, authVars, pipeVars>>

\* the entries of the map t ranged over: those of the map object, none for
\* the nil map
Ranged == IF extractAttachments(exIn.doc).ref = 1 THEN exMap ELSE NoEntries

\* for k, v := range t { atts[k] = v; delete(t, k) }: one iteration
X_MoveEntry ==
    /\ pcX = "range"
    /\ \E k \in DOMAIN Ranged :
        /\ exOut' = [n \in DOMAIN exOut \cup {k} |-> IF n = k THEN exMap[k] ELSE exOut[n]]
        /\ exMap' = [n \in DOMAIN exMap \ {k} |-> exMap[n]]
    /\ UNCHANGED <<exIn, exCell, exRes, pcX, encodeVars, authVars, pipeVars>>

\* the loop is over: return &atts, true
X_Return ==
    /\ pcX = "range"
    /\ DOMAIN Ranged = {}
    /\ exRes' = Extracted(FALSE, exOut, TRUE)
    /\ pcX' = "done"
    /\ UNCHANGED <<exIn, exMap, exCell, exOut, encodeVars, authVars, pipeVars>>

NextExtract == X_Call \/ X_MoveEntry \/ X_Return

SpecExtract == InitExtract /\ [][NextExtract]_vars

\* -------------------------------------------------------------- EncodeBody
InitEncode == NoPipeline /\ NoExtract /\ NewClient /\ \E i \in BodyValues : StartEncode(i, "encode")

\* EB_Encode with the error of Encode not kept
EB_Encode_ErrorLost ==
    /\ pcEB = "encode"
    /\ IF ebI.err # Nil
       THEN /\ pcEB' = "closePipe"
            /\ UNCHANGED <<ebPipe, ebErr>>
       ELSE IF PipeDone(ebPipe)
       THEN /\ ebErr' = writeCloseError(ebPipe)
            /\ pcEB' = "closePipe"
            /\ UNCHANGED ebPipe
       ELSE /\ ebPipe' = WriteOffer(ebPipe, BodyBytes(ebI))
            /\ pcEB' = "written"
            /\ UNCHANGED ebErr
    /\ UNCHANGED <<ebI, ebDone, ebGot, ebRes, pcEC, extractVars, authVars, pipeVars>>

\* The goroutine: the type switch.  A []byte, json.RawMessage or string is
\* written as it is; any other value is encoded first, and an encoding error
\* is wrapped and nothing written.  The Write fails at once on a closed pipe.
EB_Encode ==
    /\ pcEB = "encode"
    /\ IF ebI.err # Nil
       THEN /\ ebErr' = WrapStatus(ebI.err)
            /\ pcEB' = "closePipe"
            /\ UNCHANGED ebPipe
       ELSE IF PipeDone(ebPipe)
       THEN /\ ebErr' = IF ebI.t = "value" THEN WrapStatus(writeCloseError(ebPipe))
                        ELSE writeCloseError(ebPipe)
            /\ pcEB' = "closePipe"
            /\ UNCHANGED ebPipe
       ELSE /\ ebPipe' = WriteOffer(ebPipe, BodyBytes(ebI))
            /\ pcEB' = "written"
            /\ UNCHANGED ebErr
    /\ UNCHANGED <<ebI, ebDone, ebGot, ebRes, pcEC, extractVars, authVars, pipeVars>>

\* the Write returns: all of it was read, or the reader was closed
EB_Written ==
    /\ pcEB = "written"
    /\ WriteReturns(ebPipe)
    /\ ebErr' = IF ebI.t = "value" THEN WrapStatus(WriteResult(ebPipe))
                ELSE WriteResult(ebPipe)
    /\ ebPipe' = WriteLeft(ebPipe)
    /\ pcEB' = "closePipe"
    /\ UNCHANGED <<ebI, ebDone, ebGot, ebRes, pcEC, extractVars, authVars, pipeVars>>

\* _ = w.CloseWithError(err)
EB_ClosePipe ==
    /\ pcEB = "closePipe"
    /\ ebPipe' = closeWrite(ebPipe, ebErr)
    /\ pcEB' = "closeDone"
    /\ UNCHANGED <<ebI, ebErr, ebDone, ebGot, ebRes, pcEC, extractVars, authVars, pipeVars>>

\* defer close(done)
EB_CloseDone ==
    /\ pcEB = "closeDone"
    /\ ebDone' = TRUE
    /\ pcEB' = "done"
    /\ UNCHANGED <<ebI, ebPipe, ebErr, ebGot, ebRes, pcEC, extractVars, authVars, pipeVars>>

\* the consumer: a Read of the ebReader with a buffer of n bytes
EB_Read ==
    /\ pcEB # "off"
    /\ pcEC = "open"
    /\ ebRes = NoErr
    /\ ReadReady(ebPipe)
    /\ IF ebPipe.buf # <<>>
       THEN \E n \in 1..MaxRead :
            /\ ebGot' = ebGot \o ReadData(ebPipe, n)
            /\ ebPipe' = ReadLeft(ebPipe, n)
            /\ UNCHANGED ebRes
       ELSE /\ ebRes' = readCloseError(ebPipe)
            /\ UNCHANGED <<ebPipe, ebGot>>
    /\ UNCHANGED <<ebI, pcEB, ebErr, ebDone, pcEC, extractVars, authVars, pipeVars>>

\* EB_Close that does not close the pipe and only waits for done
EB_Close_PipeLeftOpen ==
    /\ pcEB # "off"
    /\ pcEC = "open"
    /\ pcEC' = "wait"
    /\ UNCHANGED <<ebI, ebPipe, pcEB, ebErr, ebDone, ebGot, ebRes, extractVars, authVars,
                   pipeVars>>

\* ebReader.Close: err := r.ReadCloser.Close()
EB_Close ==
    /\ pcEB # "off"
    /\ pcEC = "open"
    /\ ebPipe' = closeRead(ebPipe)
    /\ pcEC' = "wait"
    /\ UNCHANGED <<ebI, pcEB, ebErr, ebDone, ebGot, ebRes, extractVars, authVars, pipeVars>>

\* ebReader.Close: <-r.done; return err
EB_Closed ==
    /\ pcEC = "wait"
    /\ ebDone
    /\ pcEC' = "closed"
    /\ UNCHANGED <<ebI, ebPipe, pcEB, ebErr, ebDone, ebGot, ebRes, extractVars, authVars, pipeVars>>

NextEncode ==
    \/ EB_Encode \/ EB_Written \/ EB_ClosePipe \/ EB_CloseDone
    \/ EB_Read \/ EB_Close \/ EB_Closed

SpecEncode == InitEncode /\ [][NextEncode]_vars

\* The goroutine of EncodeBody and a caller inside ebReader.Close are
\* goroutines of their own: the scheduler runs each of their steps once it
\* can be taken.  Whether and when the consumer reads or closes is its choice.
EncodeFairness ==
    /\ WF_vars(EB_Encode)
    /\ WF_vars(EB_Written)
    /\ WF_vars(EB_ClosePipe)
    /\ WF_vars(EB_CloseDone)
    /\ WF_vars(EB_Closed)

SpecEncodeLive == InitEncode /\ [][NextEncode]_vars /\ EncodeFairness

\* ------------------------------------------------------------- Client.Auth
InitAuth == NoPipeline /\ NoExtract /\ NoEncode /\ NewClient

\* Auth without the check of c.auth
Auth_Unchecked(a, res, t) ==
    /\ Len(authCalls) < MaxAuthCalls
    /\ IF a \in BasicAuths
       THEN /\ baTransport' = [baTransport EXCEPT ![a] =
                                   IF cTransport = NilTransport THEN DefaultTransport
                                   ELSE cTransport]
            /\ cTransport' = a
            /\ cAuth' = a
            /\ authCalls' = Append(authCalls, AuthCall(a, TRUE, Nil, a, a))
       ELSE /\ cTransport' = t
            /\ cAuth' = IF res = Nil THEN a ELSE cAuth
            /\ authCalls' = Append(authCalls, AuthCall(a, TRUE, res, cAuth', t))
            /\ UNCHANGED baTransport
    /\ UNCHANGED <<extractVars, encodeVars, pipeVars>>

\* c.Auth(a).  For a *BasicAuth, Authenticate keeps the client's transport
\* (the default one for nil), makes itself the transport and returns nil.
\* For another Authenticator, Authenticate returns res and leaves the
\* client's transport at t.
Auth(a, res, t) ==
    /\ Len(authCalls) < MaxAuthCalls
    /\ IF cAuth # NoAuth
       THEN /\ authCalls' = Append(authCalls, AuthCall(a, FALSE, ErrAuthSet, cAuth, cTransport))
            /\ UNCHANGED <<cAuth, cTransport, baTransport>>
       ELSE IF a \in BasicAuths
       THEN /\ baTransport' = [baTransport EXCEPT ![a] =
                                   IF cTransport = NilTransport THEN DefaultTransport
                                   ELSE cTransport]
            /\ cTransport' = a
            /\ cAuth' = a
            /\ authCalls' = Append(authCalls, AuthCall(a, TRUE, Nil, a, a))
       ELSE /\ cTransport' = t
            /\ cAuth' = IF res = Nil THEN a ELSE cAuth
            /\ authCalls' = Append(authCalls, AuthCall(a, TRUE, res, cAuth', t))
            /\ UNCHANGED baTransport
    /\ UNCHANGED <<extractVars, encodeVars, pipeVars>>

NextAuth ==
    \E a \in Authenticators, res \in {Nil, ErrAuthFailed}, t \in {cTransport, OtherAuth} :
        Auth(a, res, t)

SpecAuth == InitAuth /\ [][NextAuth]_vars

\* ------------------------------------------------------------ properties
Range(s) == { s[i] : i \in DOMAIN s }

\* sub occurs in s as a run of consecutive units
Occurs(sub, s) ==
    \E k \in 1..(Len(s) - Len(sub) + 1) : SubSeq(s, k, k + Len(sub) - 1) = sub

RECURSIVE Count(_, _)
Count(u, s) ==
    IF s = <<>> THEN 0 ELSE (IF Head(s) = u THEN 1 ELSE 0) + Count(u, Tail(s))

Suffix(s, n) == SubSeq(s, Len(s) - n + 1, Len(s))

\* the units of s before its first line break
RECURSIVE UpToCRLF(_)
UpToCRLF(s) ==
    IF s = <<>> \/ Head(s) = CRLF THEN <<>> ELSE <<Head(s)>> \o UpToCRLF(Tail(s))

\* the body of the document part in a prefix w of the multipart body
DocBody(w) == UpToCRLF(Drop(w, Len(DocHeader)))

\* the place of name n in the order of this run
IndexOf(n) == CHOOSE i \in DOMAIN order : order[i] = n

\* the assembler is inside a Write on p1
AInWrite == pcA \in {"docHeader", "copyWritten", "attHeader", "attWritten", "bodyClosed"}

AllAttsClosed == \A n \in DOMAIN atts : attClosed[n] >= 1
InClosedBy(task) == \E i \in DOMAIN inCloses : inCloses[i].by = task

\* C1: whenever the consumer's reads end with a clean end-of-stream, neither
\* createMultipart (with the Close of in after it) nor the rewriter it
\* started (copyWithAttachments and the Close of in after it) ended with an
\* error.
C1_CleanEndOnlyWithoutProducerError ==
    cRes = EOF => (aErr = Nil /\ rErr = Nil)

\* C1, the case that breaks it: the rewriter ended with an error and the
\* consumer has read a clean end-of-stream
C1_RewriterErrorCleanEnd ==
    cRes = EOF /\ pcR = "done" /\ rErr # Nil

\* C2: once the Read of an attachment has returned its error after K units,
\* no header of an attachment later in the order and no closing boundary is
\* ever written, and a consumer whose reads have ended has read that
\* attachment's header and exactly its first K units last, and then the
\* attachment's error.
C2_FailedAttachmentEndsBody ==
    \A n \in attFailed :
        /\ CLOSEBOUNDARY \notin Range(wrote1)
        /\ \A m \in DOMAIN atts :
              IndexOf(m) > IndexOf(n) => ~Occurs(<<"Content-Disposition", m>>, wrote1)
        /\ cRes # NoErr =>
              /\ cRes = ErrAtt
              /\ Len(consumed) >= Len(AttHeader(n, atts[n])) + atts[n].failAt
              /\ Suffix(consumed, Len(AttHeader(n, atts[n])) + atts[n].failAt)
                    = AttHeader(n, atts[n]) \o Take(atts[n].content, atts[n].failAt)

\* C2, its case: the second attachment of two failed after one unit and the
\* consumer has read the error
C2_Witness ==
    /\ cRes = ErrAtt
    /\ \E n \in attFailed : atts[n].failAt >= 1 /\ IndexOf(n) < Len(order)

\* C3: when the consumer reads the error of a failed attachment read, every
\* attachment stream and the document stream have been closed.
C3_AllClosedBeforeAttachmentError ==
    cRes = ErrAtt => (AllAttsClosed /\ inCloses # <<>>)

\* C4: whenever the write side of the pipe of multipartAttachments is closed,
\* its goroutine has called Close on the document stream.
C4_InClosedBeforePipeClosed ==
    p1.werr # NoErr => InClosedBy("A")

\* C4, its case: the pipe was closed with the error of a Write that failed
\* because the consumer had closed the reader
C4_Witness ==
    p1.werr = ErrClosedPipe /\ cClosed /\ InClosedBy("A") /\ wrote1 # <<>>

\* the rewriter is inside a Write on p2 that cannot return: nothing of it is
\* read and the pipe is open
RBlocked == pcR = "written" /\ ~WriteReturns(p2)

\* Once the goroutine of multipartAttachments has ended nothing reads or
\* closes p2 any more: a rewriter blocked then stays blocked.
BlockedForever == [][(pcA = "done" /\ RBlocked) => RBlocked']_vars

\* C5: once the consumer has closed the body stream and the goroutine of
\* multipartAttachments has ended, the goroutine of replaceAttachments is not
\* left blocked in a Write that can never return.
C5_AbandonedTasksEnd ==
    (cClosed /\ pcA = "done") => ~RBlocked

\* C6: once the consumer has closed the body stream and the goroutine of
\* multipartAttachments has ended, every attachment stream has been closed.
C6_AbandonedAttachmentsClosed ==
    (cClosed /\ pcA = "done") => AllAttsClosed

\* the document stream is a well-formed JSON object that reads to a clean
\* end, and no attachment stream fails
GoodInputs ==
    /\ inDoc.bytes # <<>>
    /\ ParseJSON(inDoc.bytes).t = "obj"
    /\ inDoc.err = EOF
    /\ \A n \in DOMAIN atts : atts[n].failAt = -1

\* C7: for a well-formed document and attachments that read without error, a
\* body the consumer has read to its clean end starts with the header of the
\* application/json part, holds exactly N+1 boundary lines, exactly one
\* attachment header per name, and ends with the one closing boundary.
C7_BodyHasAllParts ==
    (GoodInputs /\ cRes = EOF) =>
        /\ Take(consumed, Len(DocHeader)) = DocHeader
        /\ Count(BOUNDARY, consumed) = Cardinality(DOMAIN atts) + 1
        /\ Count("Content-Disposition", consumed) = Cardinality(DOMAIN atts)
        /\ \A n \in DOMAIN atts : Occurs(AttHeader(n, atts[n]), consumed)
        /\ Count(CLOSEBOUNDARY, consumed) = 1
        /\ Suffix(consumed, Len(ClosingBoundary)) = ClosingBoundary

\* C7, its case: a body of three parts read to its end
C7_Witness ==
    GoodInputs /\ cRes = EOF /\ Cardinality(DOMAIN atts) = 2

\* C8: what the consumer has read is a prefix of what the assembler has
\* written, and the body of the document part the assembler has written is a
\* prefix of what the rewriter has written.
C8_ReadIsPrefixOfWritten ==
    /\ IsPrefix(consumed, wrote1)
    /\ IsPrefix(DocBody(wrote1), wrote2)

\* C8, its case: the consumer has read document bytes that went through both
\* pipes, and attachment bytes after them
C8_Witness ==
    /\ Len(DocBody(consumed)) >= 2
    /\ \E n \in DOMAIN atts : attPos[n] >= 1 /\ Occurs(Take(atts[n].content, 1), consumed)
    /\ Len(consumed) < Len(wrote1)

ExpectedObject ==
    ObjVal([i \in DOMAIN ParseJSON(inDoc.bytes).m |->
              IF ParseJSON(inDoc.bytes).m[i].k = <<attachmentsKey>>
              THEN [k |-> <<attachmentsKey>>,
                    v |-> ParseJSON(EncodeStubs(attachmentStubs(atts)))]
              ELSE ParseJSON(inDoc.bytes).m[i]])

\* C10: for every JSON object, copyWithAttachments returns no error and its
\* output parses to the input object with the value of the top-level
\* _attachments replaced by the stubs, everything else equal and in order.
C10_RewriteKeepsObject ==
    (pcR = "returned" /\ ParseJSON(inDoc.bytes).t = "obj") =>
        (rRet = Nil /\ ParseJSON(wrote2) = ExpectedObject)

\* the first token of the input is the object-open token
FirstTokenIsOpen ==
    /\ SkipSpace(inDoc.bytes, 1) <= Len(inDoc.bytes)
    /\ inDoc.bytes[SkipSpace(inDoc.bytes, 1)] = LBRACE

\* C11: when copyWithAttachments has returned on an input whose first token
\* is not '{' (the empty stream included), it returned an error and wrote
\* nothing.
C11_NonObjectFailsWithoutOutput ==
    (pcR = "returned" /\ ~FirstTokenIsOpen) => (rRet # Nil /\ wrote2 = <<>>)

\* an input starting with '[', a string, a number or a literal was refused
\* with nothing written
C11_Witness ==
    /\ pcR = "returned"
    /\ inDoc.bytes # <<>>
    /\ ~FirstTokenIsOpen
    /\ rRet = ErrExpectedOpen
    /\ wrote2 = <<>>

\* the input is a JSON object with no top-level _attachments key
NoAttachmentsKey ==
    /\ ParseJSON(inDoc.bytes).t = "obj"
    /\ \A i \in DOMAIN ParseJSON(inDoc.bytes).m :
          ParseJSON(inDoc.bytes).m[i].k # <<attachmentsKey>>

\* C12: for a document (a JSON object) with no top-level _attachments key,
\* what copyWithAttachments writes, which is the body of the document part,
\* is unit for unit the input: the white space between tokens and a
\* trailing newline included.
C12_DocumentPartIdentical ==
    (pcR = "returned" /\ NoAttachmentsKey) => (rRet = Nil /\ wrote2 = inDoc.bytes)

\* the output of json.Encoder for {"a":1}, newline at the end, went through
\* and came out without the newline
C12_NewlineDropped ==
    /\ pcR = "returned"
    /\ inDoc.bytes = <<LBRACE>> \o Str("a") \o <<COLON, "1", RBRACE, NL>>
    /\ rRet = Nil
    /\ wrote2 = <<LBRACE>> \o Str("a") \o <<COLON, "1", RBRACE>>

\* the values of the top-level members of v with the key _attachments
AttachmentsMember(v) ==
    { v.m[i].v : i \in { j \in DOMAIN v.m : v.m[j].k = <<attachmentsKey>> } }

\* the entry expected for attachment n
ExpectedStub(n) ==
    ObjVal(<< [k |-> <<"content_type">>, v |-> StrVal(<<atts[n].ContentType>>)],
              [k |-> <<"follows">>, v |-> LitVal("true")] >>)

\* sv is an object with one member per attachment name and nothing else
IsStubMapping(sv) ==
    /\ sv.t = "obj"
    /\ Len(sv.m) = Cardinality(DOMAIN atts)
    /\ \A n \in DOMAIN atts :
          \E i \in DOMAIN sv.m : sv.m[i].k = <<n>> /\ sv.m[i].v = ExpectedStub(n)

\* the file names in the part headers of the body s
PartNames(s) ==
    { s[i + 1] : i \in { j \in 1..(Len(s) - 1) : s[j] = "Content-Disposition" } }

\* C13: in a body read to its clean end for a well-formed document with a
\* top-level _attachments key, the value of that key in the document part is
\* a mapping with exactly the attachment names as keys, each entry holding
\* the attachment's content type and follows = true, and the attachment
\* parts carry exactly the same names, one part per name.
C13_StubsMatchAttachments ==
    (GoodInputs /\ cRes = EOF /\ ~NoAttachmentsKey) =>
        /\ AttachmentsMember(ParseJSON(DocBody(consumed))) # {}
        /\ \A sv \in AttachmentsMember(ParseJSON(DocBody(consumed))) : IsStubMapping(sv)
        /\ PartNames(consumed) = DOMAIN atts
        /\ Count("Content-Disposition", consumed) = Cardinality(DOMAIN atts)

\* C13, its case: two attachments of different content types
C13_Witness ==
    /\ GoodInputs
    /\ cRes = EOF
    /\ ~NoAttachmentsKey
    /\ Cardinality(DOMAIN atts) = 2
    /\ atts["a.txt"].ContentType # atts["b.png"].ContentType

\* the document handed to extractAttachments, without the pointers around it
\* (struct fields are looked at by their json tag as written)
HasAttachmentsField == \E i \in DOMAIN exIn.doc.fields : exIn.doc.fields[i].key = attachmentsKey
AttachmentsField == MapIndex(exIn.doc.fields)
IsCollection(v) == v.t \in {"kivik.Attachments", "*kivik.Attachments"}

\* the entries the document's attachments field held when the function was
\* called
EntriesAtCall ==
    IF AttachmentsField = AttachmentsValue(1) \/ (AttachmentsField = AttachmentsPtr(1) /\ exIn.cell = 1)
    THEN exIn.map ELSE NoEntries

\* the entries it holds now
EntriesNow ==
    IF AttachmentsField = AttachmentsValue(1) \/ (AttachmentsField = AttachmentsPtr(1) /\ exCell = 1)
    THEN exMap ELSE NoEntries

\* C14: when extractAttachments has returned for a document that has no
\* _attachments field, or whose field is an attachments collection without
\* entries, or whose field holds a value of another type, it returned
\* found = false and the document (the map and the pointer behind the field
\* included) is as it was.
C14_NothingFoundNothingChanged ==
    (/\ pcX = "done"
     /\ \/ ~HasAttachmentsField
        \/ ~IsCollection(AttachmentsField)
        \/ DOMAIN EntriesAtCall = {})
    => (/\ exRes.found = FALSE
        /\ exMap = exIn.map
        /\ exCell = exIn.cell)

\* a map document whose _attachments is a kivik.Attachments (not nil) without
\* entries was reported as found
C14_EmptyCollectionFound ==
    /\ pcX = "done"
    /\ exIn.doc.kind = "map"
    /\ AttachmentsField = AttachmentsValue(1)
    /\ DOMAIN exIn.map = {}
    /\ exRes.found

\* C15: when extractAttachments has returned found = true, the set it
\* returned holds exactly the entries the document's attachments field held
\* at the call, that field holds no entry now, and the document's fields are
\* the ones it had.
C15_EntriesMovedOut ==
    (pcX = "done" /\ exRes.found) =>
        /\ ~exRes.isNil
        /\ exRes.entries = EntriesAtCall
        /\ DOMAIN EntriesNow = {}
        /\ IsCollection(AttachmentsField)

\* C15, its cases: two entries moved out of a map held by value in a struct
\* behind a pointer ...
C15_Witness ==
    /\ pcX = "done"
    /\ exRes.found
    /\ exIn.doc.kind = "struct"
    /\ exIn.doc.ptr >= 1
    /\ AttachmentsField = AttachmentsValue(1)
    /\ Cardinality(DOMAIN exRes.entries) = 2

\* the rewriter goroutine has not started or is through with in: past its
\* last Read and its in.Close()
RewriterDoneWithIn == pcR \in {"off", "closePipe", "done"}

\* C16: the assembler goroutine closes the document stream only when the
\* rewriter goroutine is through with it: once in.Close() was called by the
\* assembler, the rewriter is neither reading in nor going to read or close
\* it.
C16_InHasOneOwner == InClosedBy("A") => RewriterDoneWithIn

\* the assembler has closed in and the rewriter is about to call dec.Token(),
\* which reads from in
C16_ClosedUnderReader ==
    /\ InClosedBy("A")
    /\ pcR = "run"
    /\ rq = <<>>
    /\ rRet = Continue
    /\ dec.pc = "loop"

\* C17: a value whose encoding fails gives a reader whose Read ends with
\* that error (wrapped with the status), nothing read before it and never a
\* clean end-of-stream; a value that encodes gives a reader that yields
\* exactly the encoded bytes and then the clean end-of-stream.
C17_EncodeErrorReachesReader ==
    /\ IsPrefix(ebGot, BodyBytes(ebI))
    /\ ebI.err # Nil =>
          /\ ebGot = <<>>
          /\ ebRes \in {NoErr, WrapStatus(ebI.err)}
          /\ (pcEB = "done" /\ pcEC = "open") => ebPipe.werr = WrapStatus(ebI.err)
    /\ (ebI.err = Nil /\ ebRes # NoErr) =>
          /\ ebRes = EOF
          /\ ebGot = BodyBytes(ebI)

\* C17, its case: the encoding failed and the consumer's Read returned the
\* error
C17_Witness ==
    /\ ebI.err = ErrUnsupportedType
    /\ ebRes = WrapStatus(ErrUnsupportedType)
    /\ ebRes # EOF

\* the other case: an encoded value read to the end
C17_SuccessReached ==
    /\ ebI.t = "value"
    /\ ebI.err = Nil
    /\ ebRes = EOF
    /\ Len(ebGot) = 4

\* C18: in every sequence of Auth calls on one client, every call after one
\* that returned nil returns "auth already set" without invoking
\* Authenticate and leaves c.auth and c.Transport as that call left them; a
\* call whose Authenticate failed leaves c.auth unset; and while no call has
\* returned nil c.auth is unset, so that a later call can install one.
C18_AuthInstalledOnce ==
    /\ \A i, j \in DOMAIN authCalls :
          (i < j /\ authCalls[i].ret = Nil) =>
              /\ authCalls[j].ret = ErrAuthSet
              /\ ~authCalls[j].invoked
              /\ authCalls[j].auth = authCalls[i].auth
              /\ authCalls[j].transport = authCalls[i].transport
    /\ \A i \in DOMAIN authCalls :
          /\ (authCalls[i].invoked /\ authCalls[i].ret # Nil) => authCalls[i].auth = NoAuth
          /\ authCalls[i].ret = Nil => (cAuth = authCalls[i].a /\ cTransport = authCalls[i].transport)
    /\ (\A i \in DOMAIN authCalls : authCalls[i].ret # Nil) => cAuth = NoAuth

\* C18, its case: an Auth that failed, one that succeeded after it, and a
\* later one that was refused
C18_Witness ==
    /\ Len(authCalls) >= 3
    /\ authCalls[1].ret = ErrAuthFailed
    /\ authCalls[2].ret = Nil
    /\ authCalls[2].a \in BasicAuths
    /\ authCalls[3].ret = ErrAuthSet
    /\ authCalls[3].a # authCalls[2].a
    /\ cAuth = authCalls[2].a

\* the stub of a.txt as JSON text
ExampleStubs ==
    <<LBRACE>> \o Str("a.txt") \o <<COLON, LBRACE>>
               \o Str("content_type") \o <<COLON>> \o Str("text/plain") \o <<COMMA>>
               \o Str("follows") \o <<COLON, "true", RBRACE, RBRACE>>

\* C19: for the document {"_id":"doc1","title":"x","_attachments":v} and the
\* attachment a.txt (text/plain, content hi), a body read to its clean end
\* is the document part with exactly the document text in which v is
\* replaced by the stub of a.txt, nothing between the stub and the closing
\* brace, then one attachment part with exactly the bytes hi, then the
\* closing boundary.
C19_ExampleBody ==
    cRes = EOF =>
        consumed = DocHeader \o ExampleDoc(ExampleStubs)
                   \o AttHeader("a.txt", atts["a.txt"]) \o <<"h", "i">> \o ClosingBoundary

\* what is read instead: the same with a newline after the stub
C19_NewlineAfterStub ==
    /\ cRes = EOF
    /\ consumed = DocHeader \o ExampleDoc(ExampleStubs \o <<NL>>)
                  \o AttHeader("a.txt", atts["a.txt"]) \o <<"h", "i">> \o ClosingBoundary

\* the part of attachment n has been started in the body written so far
PartStarted(n) == Occurs(<<"Content-Disposition", n>>, wrote1)

\* the number of parts started for attachment n
PartCount(n) ==
    Cardinality({ k \in 1..(Len(wrote1) - 1) :
                    wrote1[k] = "Content-Disposition" /\ wrote1[k + 1] = n })

\* what holds of the attachment streams in every state: each has at most one
\* part and at most one Close; a closed one was read to its end; none is read
\* before its part is started; and when the part of a later attachment is
\* started, every earlier one is closed
AttachmentsInTurn ==
    \A n \in DOMAIN atts :
        /\ attClosed[n] <= 1
        /\ PartCount(n) <= 1
        /\ attClosed[n] = 1 => (attPos[n] = Len(atts[n].content) /\ n \notin attFailed)
        /\ (attPos[n] > 0 \/ n \in attFailed \/ attClosed[n] > 0) => PartStarted(n)
        /\ \A m \in DOMAIN atts :
              (IndexOf(n) < IndexOf(m) /\ PartStarted(m)) => attClosed[n] = 1

\* createMultipart has just returned nil
CreateMultipartOk == pcA = "closeIn" /\ aErr = Nil

\* no step reads a closed attachment stream
NoReadAfterClose ==
    \A n \in DOMAIN atts :
        attClosed[n] >= 1 => (attPos'[n] = attPos[n] /\ (n \in attFailed' <=> n \in attFailed))

\* C20: each attachment stream is read for one part only and never after its
\* Close; when createMultipart returns nil every stream was read to its end
\* and closed exactly once, each before the part of the next was started.
C20_AttachmentsReadAndClosedOnce ==
    /\ [](AttachmentsInTurn
          /\ (CreateMultipartOk =>
                \A n \in DOMAIN atts :
                    attPos[n] = Len(atts[n].content) /\ attClosed[n] = 1))
    /\ [][NoReadAfterClose]_vars

\* C20, its case: createMultipart returned nil for two attachments
C20_Witness ==
    /\ CreateMultipartOk
    /\ Cardinality(DOMAIN atts) = 2
    /\ \A n \in DOMAIN atts : attClosed[n] = 1 /\ attPos[n] >= 1

\* the input is {"a":[1],"c":2} or ends somewhere inside it: the stream ends
\* and no _attachments key was seen
EndsBeforeKey == inDoc.bytes \in TruncatedDocs \cup {WholeDoc}

\* C21: when copyWithAttachments has returned on an input that ends before
\* any _attachments key, wherever it ends, it returned no error, and it
\* wrote the closing '}' exactly when the input holds it.
C21_EarlyEndIsNoError ==
    (pcR = "returned" /\ EndsBeforeKey) =>
        /\ rRet = Nil
        /\ RBRACE \in Range(wrote2) <=> RBRACE \in Range(inDoc.bytes)

\* the input ended after a complete pair and the function returned nil,
\* without a closing brace
C21_EndAfterPair ==
    /\ pcR = "returned"
    /\ inDoc.bytes = <<LBRACE>> \o Str("a") \o <<COLON, LBRACK, "1", RBRACK>>
    /\ rRet = Nil
    /\ wrote2 = inDoc.bytes

\* the input ended after a key and the function returned io.EOF as its error
C21_EndAfterKeyIsError ==
    /\ pcR = "returned"
    /\ inDoc.bytes = <<LBRACE>> \o Str("a")
    /\ rRet = EOF

\* v is an object whose last member is its only one with the key _attachments
EndsWithFirstKey(v) ==
    /\ v.t = "obj"
    /\ v.m # <<>>
    /\ v.m[Len(v.m)].k = <<attachmentsKey>>
    /\ \A i \in 1..(Len(v.m) - 1) : v.m[i].k # <<attachmentsKey>>

\* the places in s at which the value of the first top-level _attachments
\* key ends: closing the object there gives an object ending with that key
ValueEnds(s) == { k \in 1..Len(s) : EndsWithFirstKey(ParseJSON(Take(s, k) \o <<RBRACE>>)) }

\* where that value ends (the end without white space after it), and the
\* input after it
RECURSIVE Least(_, _)
Least(S, k) == IF k \in S THEN k ELSE Least(S, k + 1)
RestAfterKey(s) == Drop(s, Least(ValueEnds(s), 1))

\* out is some output, then the stubs, then rest and nothing more
EndsWithStubsAndRest(out, stubs, rest) ==
    /\ Len(out) >= Len(stubs) + Len(rest) + 4
    /\ Suffix(out, Len(rest)) = rest
    /\ SubSeq(out, Len(out) - Len(rest) - Len(stubs) + 1, Len(out) - Len(rest)) = stubs
    /\ SubSeq(out, Len(out) - Len(rest) - Len(stubs) - 3, Len(out) - Len(rest) - Len(stubs))
           = <<QUOTE, attachmentsKey, QUOTE, COLON>>

\* C22: when copyWithAttachments has returned on an input with a top-level
\* _attachments key, its output ends with the key, the replacement and then
\* every unit of the input after the key's original value, once, in order
\* and as it was, later and nested _attachments keys included; and the
\* output is no longer than that allows.
C22_RestPassedThrough ==
    (pcR = "returned" /\ ValueEnds(inDoc.bytes) # {}) =>
        /\ rRet = Nil
        /\ EndsWithStubsAndRest(wrote2, EncodeStubs(attachmentStubs(atts)),
                                RestAfterKey(inDoc.bytes))
        /\ Len(wrote2) <= Least(ValueEnds(inDoc.bytes), 1)
                           + Len(EncodeStubs(attachmentStubs(atts)))
                           + Len(RestAfterKey(inDoc.bytes))

\* C22, its case: the rest of the input holds _attachments again, as a key
\* and nested, and bytes after the closing brace
C22_Witness ==
    /\ pcR = "returned"
    /\ inDoc.bytes \in RepeatDocs
    /\ Count(attachmentsKey, RestAfterKey(inDoc.bytes)) = 2
    /\ Count(attachmentsKey, wrote2) = 3
    /\ wrote2[Len(wrote2)] = NL
    /\ DOMAIN atts # {}

\* copyWithAttachments has returned an error
RewriterFailed == rRet \notin {Continue, Nil}
\* a Write on one of the two pipes has returned an error
WriteFailed == aErr = ErrClosedPipe \/ rErr = ErrClosedPipe
AttachmentReadFailed == attFailed # {}

\* C23: on every run in which the rewriter, the Read of an attachment or a
\* Write has failed, what the consumer has read never holds the closing
\* boundary marker.
C23_NoClosingBoundaryAfterFailure ==
    (RewriterFailed \/ AttachmentReadFailed \/ WriteFailed) =>
        CLOSEBOUNDARY \notin Range(consumed)

\* C23, the case that breaks it: copyWithAttachments returned io.EOF and the
\* consumer has read a body that ends with the closing boundary, to a clean
\* end
C23_ClosedAfterRewriterError ==
    /\ rRet = EOF
    /\ inDoc.bytes = <<LBRACE>> \o Str("a")
    /\ Suffix(consumed, Len(ClosingBoundary)) = ClosingBoundary
    /\ cRes = EOF

\* C23, what does hold: the closing boundary is read only when the rewriter
\* returned nil or io.EOF, no Read of an attachment failed and no Write failed
C23_ClosingBoundaryOnlyAfterEOF ==
    CLOSEBOUNDARY \in Range(consumed) =>
        /\ rRet \in {Nil, EOF}
        /\ ~AttachmentReadFailed
        /\ ~WriteFailed

\* the goroutine of EncodeBody is inside a Write that cannot return
EncoderBlocked == pcEB = "written" /\ ~WriteReturns(ebPipe)

\* C24: a call of ebReader.Close always returns, whatever the goroutine of
\* EncodeBody was doing when it came; when it has returned the goroutine has
\* run to its end; and from the call of Close on the goroutine is never
\* inside a Write that cannot return.
C24_CloseReturnsAfterEncoder ==
    /\ [](pcEC = "closed" => (pcEB = "done" /\ ebDone))
    /\ [](pcEC # "open" => ~EncoderBlocked)
    /\ (pcEC = "wait") ~> (pcEC = "closed")

\* C24, its case: Close came while the goroutine was blocked in a Write of
\* which a part had been read, the Write failed, and Close has returned
C24_Witness ==
    /\ pcEC = "closed"
    /\ pcEB = "done"
    /\ ebGot # <<>>
    /\ ebGot # BodyBytes(ebI)
    /\ ebErr \in {ErrClosedPipe, WrapStatus(ErrClosedPipe)}

\* C24, the other two cases: Close before the first Write, and after the
\* goroutine finished
C24_ClosedBeforeWrite ==
    pcEC = "closed" /\ ebGot = <<>> /\ ebI.err = Nil /\ ebErr # Nil /\ ebRes = NoErr
C24_ClosedAfterEnd ==
    pcEC = "closed" /\ ebGot = BodyBytes(ebI) /\ ebErr = Nil /\ ebRes = EOF /\ ebI.err = Nil

\* the Close calls on in made by one goroutine
ClosesBy(task) == Cardinality({ i \in DOMAIN inCloses : inCloses[i].by = task })
\* a Close of in has returned an error
InCloseFailed == \E i \in DOMAIN inCloses : inCloses[i].res = ErrClose

\* C25: Close is called on the document stream at most once, by the
\* goroutine of multipartAttachments or by that of replaceAttachments but
\* not by both; it has been called once the goroutine of
\* multipartAttachments has ended; and the consumer reads the Close error
\* only when a Close of in returned it.
C25_InClosedExactlyOnce ==
    /\ Len(inCloses) <= 1
    /\ pcA = "done" => Len(inCloses) = 1
    /\ cRes = ErrClose => InCloseFailed

\* C25, the case that breaks it: a well-formed document, both goroutines
\* have called in.Close(), both calls returned nil and the consumer has read
\* the body to its clean end
C25_ClosedTwice ==
    /\ GoodInputs
    /\ ClosesBy("A") = 1
    /\ ClosesBy("R") = 1
    /\ ~InCloseFailed
    /\ cRes = EOF

\* C25, what does hold: each goroutine calls in.Close() at most once, the
\* goroutine of multipartAttachments has called it when it has ended and the
\* rewriter when it has ended, and the consumer reads the Close error only
\* when a Close returned it and the goroutine that called it had no error
\* before
C25_OneClosePerGoroutine ==
    /\ ClosesBy("A") <= 1
    /\ ClosesBy("R") <= 1
    /\ pcA = "done" => ClosesBy("A") = 1
    /\ pcR = "done" => ClosesBy("R") = 1
    /\ cRes = ErrClose => InCloseFailed
    /\ (cRes = ErrClose /\ rErr # ErrClose) => (rErr \in {Nil, EOF} /\ ~AttachmentReadFailed)

====
